---- MODULE Spec2Model ----
(***************************************************************************)
(* Model of the notebooks under src/pyTorch.                               *)
(*                                                                         *)
(*  - optimizing_model_params.ipynb: the data loaders, the optimizer, the  *)
(*    functions train_loop and test_loop and the epoch loop that drives    *)
(*    them (specification Spec, and FairSpec for progress); and the same   *)
(*    run over a long training set (SpecLong).                             *)
(*  - automatic_differentiation.ipynb: the statements of the autograd      *)
(*    walk-through (forward, loss.backward(), torch.no_grad()), as the     *)
(*    operations of an interactive session (specification SpecAD).         *)
(*  - the backward pass of the autograd engine over a recorded graph, as   *)
(*    the specification describes it (specification SpecBW).               *)
(*                                                                         *)
(* The notebooks call torch; the calls are modelled by what the library    *)
(* does at each call site.  Tensors are abstracted to integers: the        *)
(* network is one integer logit per class, the loss is the multi-class     *)
(* perceptron loss summed over the batch (an integer stand-in for          *)
(* nn.CrossEntropyLoss), and its gradient is the exact gradient of that    *)
(* loss.  A gradient slot (.grad) is None or a value.                      *)
(***************************************************************************)
EXTENDS Integers, Sequences, FiniteSets, TLC

VARIABLES
    \* ---- optimizing_model_params.ipynb ----
    cfg,          \* hyperparameters and data sources chosen for the run
    pc,           \* position of the notebook's control flow
    err,          \* the exception that ended the run, or "None"
    t,            \* epoch loop variable
    batch,        \* batch index of the running loop (enumerate / for)
    params,       \* model.parameters(): class -> value
    grad,         \* .grad of every parameter: None or Some(v)
    optimizer,    \* the SGD object: None before construction, else [lr |-> _]
    pred,         \* the node bound to pred
    loss,         \* the node bound to loss
    test_loss,    \* test_loop accumulator
    correct,      \* test_loop accumulator
    report,       \* last "Test Error" line: None or Some([loss, acc])
    progress,     \* last progress line of train_loop: None or Some(record)
    \* ---- torch global state (both notebooks) ----
    grad_enabled, \* torch.is_grad_enabled()
    saved,        \* prev of every torch.no_grad() context entered and not left
    \* ---- automatic_differentiation.ipynb ----
    leaves,       \* w and b: [requires_grad, val, grad]
    zn,           \* the node bound to z
    lossn,        \* the node bound to loss (with the z it was built from)
    raising,      \* an exception is propagating out of the with blocks
    \* ---- history (observation only) ----
    n_records,    \* operation records (grad_fn objects) allocated so far
    calls,        \* engine calls made for the current training batch
    phase_log,    \* begin/end events of train_loop and test_loop
    snap,         \* learned state at the last entry of test_loop
    n_back,       \* backward passes that completed (autograd session)
    hist,         \* what the last calls of the autograd session saw
    n_updates,    \* optimizer.step() calls made so far
    consumed,     \* the examples the training loader has yielded this epoch
    \* ---- one backward pass of the engine over a graph ----
    graph,        \* the recorded edges << node, operand >>
    node_grad,    \* node -> the gradient accumulated for it
    order         \* the nodes propagated so far, in order

vars == << cfg, pc, err, t, batch, params, grad, optimizer, pred, loss,
           test_loss, correct, report, progress, grad_enabled, saved,
           leaves, zn, lossn, raising, n_records, calls, phase_log, snap,
           n_back, hist, n_updates, consumed, graph, node_grad, order >>

drv_vars == << cfg, pc, err, t, batch, params, grad, optimizer, pred, loss,
               test_loss, correct, report, progress, calls, phase_log, snap,
               n_updates, consumed >>

ad_vars == << leaves, zn, lossn, raising, n_back, hist >>

eng_vars == << graph, node_grad, order >>

----------------------------------------------------------------------------
\* Bounds of the model.

MaxEpochs == 2
MaxTrain == 2
MaxTest == 2
MaxDepth == 2
MaxBackward == 3
MaxNodes == 5
MaxLong == 201

\* Program constant: the progress interval of train_loop.
LogInterval == 100

Classes == {0, 1}
LearningRates == {-1, 0, 1}
BatchSizes == {0, 1, 2}
EpochCounts == 0 .. MaxEpochs

\* An example: its label and whether its input has the shape the model expects.
Examples == { [y |-> 0, ok |-> TRUE], [y |-> 1, ok |-> TRUE], [y |-> 0, ok |-> FALSE] }

SeqsUpTo(S, n) == UNION { [1..k -> S] : k \in 0..n }

----------------------------------------------------------------------------
\* Values.

None == << >>
Some(v) == << v >>

\* A name that is not bound to a node yet (a scalar, a vector of logits).
NoNode == [val |-> 0, requires_grad |-> FALSE, grad_fn |-> "None", freed |-> FALSE]
NoPred == [NoNode EXCEPT !.val = [c \in {0, 1} |-> 0]]

\* A plain number (tensor.item()): it has no requires_grad and no grad_fn.
PlainValue(v) == [val |-> v, requires_grad |-> FALSE, grad_fn |-> "None", freed |-> FALSE]

Min(a, b) == IF a < b THEN a ELSE b

RECURSIVE SumSeq(_)
SumSeq(s) == IF s = << >> THEN 0 ELSE s[1] + SumSeq(Tail(s))

\* len(dataloader): the number of batches of a loader with batch size B.
NumBatchesFloor(data, B) == Len(data) \div B
NumBatches(data, B) == (Len(data) + B - 1) \div B

\* The i-th batch (from 0) a loader without shuffling yields.
BatchAt(data, B, i) == SubSeq(data, i * B + 1, Min((i + 1) * B, Len(data)))

\* pred.argmax: the first index holding the maximum.
ArgMax(logits) ==
    CHOOSE c \in Classes :
        /\ \A d \in Classes : logits[d] <= logits[c]
        /\ \A d \in Classes : (logits[d] = logits[c]) => c <= d

\* model(X): one logit per class; fails on an input of the wrong shape.
ShapeOk(X) == \A i \in 1..Len(X) : X[i].ok
Logits(p) == p

\* loss_fn(pred, y) for a batch.
ExampleLoss(logits, y) == logits[ArgMax(logits)] - logits[y]
BatchLoss(logits, X) == SumSeq([i \in 1..Len(X) |-> ExampleLoss(logits, X[i].y)])

\* d loss / d parameter c for a batch.
ExampleGrad(logits, y, c) ==
    (IF c = ArgMax(logits) THEN 1 ELSE 0) - (IF c = y THEN 1 ELSE 0)
BatchGrad(logits, X) ==
    [c \in Classes |-> SumSeq([i \in 1..Len(X) |-> ExampleGrad(logits, X[i].y, c)])]

\* (pred.argmax(1) == y).type(torch.float).sum().item()
CorrectIn(logits, X) ==
    Cardinality({i \in 1..Len(X) : ArgMax(logits) = X[i].y})

----------------------------------------------------------------------------
\* The autograd engine, as the notebooks use it.

\* Whether the result of an operation is attached to the graph.
ResultTrackedAlways(mode, operands) == \E f \in operands : f
ResultTracked(mode, operands) == mode /\ \E f \in operands : f

\* The node an operation returns.
MakeNode(kind, val, mode, operands) ==
    [val |-> val,
     requires_grad |-> ResultTracked(mode, operands),
     grad_fn |-> IF ResultTracked(mode, operands) THEN kind ELSE "None",
     freed |-> FALSE]

Records(node) == IF node.grad_fn = "None" THEN 0 ELSE 1

\* What a backward pass does to one gradient slot.
AccumulateGradOverwrite(slot, g) == Some(g)
AccumulateGrad(slot, g) == IF slot = None THEN Some(g) ELSE Some(slot[1] + g)

\* Whether tensor.backward() runs: it raises on a tensor that is not attached
\* to a graph and on a graph whose buffers an earlier pass freed.
BackwardOkUnchecked(node) == ~node.freed
BackwardOk(node) == node.requires_grad /\ ~node.freed

\* with torch.no_grad(): __enter__ and __exit__.
NoGradEnterKeep(mode, stack) == [mode |-> mode, stack |-> Append(stack, mode)]
NoGradEnter(mode, stack) == [mode |-> FALSE, stack |-> Append(stack, mode)]

NoGradExitEnable(mode, stack) ==
    [mode |-> TRUE, stack |-> SubSeq(stack, 1, Len(stack) - 1)]
NoGradExit(mode, stack) ==
    [mode |-> stack[Len(stack)], stack |-> SubSeq(stack, 1, Len(stack) - 1)]

\* optimizer.step() of SGD without momentum: a parameter without a gradient
\* is left alone.
SGDStep(p, g, lr) ==
    [c \in Classes |-> IF g[c] = None THEN p[c] ELSE p[c] - lr * g[c][1]]

\* optimizer.zero_grad(): set_to_none is the default.
ZeroGradSkip(g) == g
ZeroGrad(g) == [c \in Classes |-> None]

----------------------------------------------------------------------------
\* optimizing_model_params.ipynb

Learned == [params |-> params, grad |-> grad, optimizer |-> optimizer,
            n_records |-> n_records]

NoHist == [made |-> [n \in {"z", "loss"} |->
                        [mode |-> TRUE, depth |-> 0, operands |-> {FALSE}]],
           bw |-> [nth |-> 0, ok |-> TRUE, error |-> "None", base |-> None,
                   before |-> None],
           exit |-> "none"]

ADIdle ==
    /\ leaves = [n \in {"w", "b"} |-> [requires_grad |-> TRUE, val |-> 0, grad |-> None]]
    /\ zn = NoNode
    /\ lossn = NoNode
    /\ raising = FALSE
    /\ n_back = 0
    /\ hist = NoHist

EngIdle ==
    /\ graph = {}
    /\ node_grad = << >>
    /\ order = << >>

Init ==
    /\ cfg \in [epochs : EpochCounts, learning_rate : LearningRates,
                loader_batch : BatchSizes, batch_size : BatchSizes,
                train : SeqsUpTo(Examples, MaxTrain),
                test : SeqsUpTo(Examples, MaxTest)]
    /\ pc = "dataloader"
    /\ err = "None"
    /\ t = 0
    /\ batch = 0
    /\ params = [c \in Classes |-> 0]
    /\ grad = [c \in Classes |-> None]
    /\ optimizer = None
    /\ pred = NoPred
    /\ loss = NoNode
    /\ test_loss = 0
    /\ correct = 0
    /\ report = None
    /\ progress = None
    /\ grad_enabled = TRUE
    /\ saved = << >>
    /\ n_records = 0
    /\ calls = << >>
    /\ phase_log = << >>
    /\ snap = Learned
    /\ n_updates = 0
    /\ consumed = << >>
    /\ ADIdle
    /\ EngIdle

Raise(e) == pc' = "raised" /\ err' = e

\* DataLoader(training_data, batch_size=..), DataLoader(test_data, batch_size=..)
MakeDataLoaders ==
    /\ pc = "dataloader"
    /\ IF cfg.loader_batch <= 0
       THEN Raise("ValueError")
       ELSE pc' = "optimizer" /\ err' = err
    /\ UNCHANGED << cfg, t, batch, params, grad, optimizer, pred, loss, test_loss,
                    correct, report, progress, grad_enabled, saved, n_records,
                    calls, phase_log, snap, n_updates, consumed,
                    ad_vars, eng_vars >>

\* torch.optim.SGD(model.parameters(), lr=learning_rate)
MakeOptimizer ==
    /\ pc = "optimizer"
    /\ IF cfg.learning_rate < 0
       THEN Raise("ValueError") /\ optimizer' = optimizer
       ELSE pc' = "epoch_head" /\ err' = err
            /\ optimizer' = Some([lr |-> cfg.learning_rate])
    /\ UNCHANGED << cfg, t, batch, params, grad, pred, loss, test_loss,
                    correct, report, progress, grad_enabled, saved, n_records,
                    calls, phase_log, snap, n_updates, consumed,
                    ad_vars, eng_vars >>

\* for t in range(epochs): ... print("Done!")
EpochGuard == t < cfg.epochs

EpochHead ==
    /\ pc = "epoch_head"
    /\ IF EpochGuard
       THEN /\ pc' = "train_head"
            /\ batch' = 0
            /\ phase_log' = Append(phase_log, "train_begin")
            /\ consumed' = << >>
       ELSE /\ pc' = "Done"
            /\ UNCHANGED << batch, phase_log, consumed >>
    /\ UNCHANGED << cfg, err, t, params, grad, optimizer, pred, loss, test_loss,
                    correct, report, progress, grad_enabled, saved, n_records,
                    calls, snap, n_updates,
                    ad_vars, eng_vars >>

TrainBatch == BatchAt(cfg.train, cfg.loader_batch, batch)
TestBatch == BatchAt(cfg.test, cfg.loader_batch, batch)

\* for batch, (X, y) in enumerate(dataloader): one more batch, or train_loop
\* returns and test_loop starts (test_loss, correct = 0, 0).
TestAccumulatorsKept == << test_loss, correct >>
TestAccumulators == << 0, 0 >>

TrainHead ==
    /\ pc = "train_head"
    /\ IF batch < NumBatches(cfg.train, cfg.loader_batch)
       THEN /\ pc' = "train_forward"
            /\ consumed' = consumed \o TrainBatch
            /\ UNCHANGED << batch, test_loss, correct, phase_log, snap >>
       ELSE /\ pc' = "test_enter"
            /\ consumed' = consumed
            /\ batch' = 0
            /\ test_loss' = TestAccumulators[1]
            /\ correct' = TestAccumulators[2]
            /\ phase_log' = phase_log \o << "train_end", "test_begin" >>
            /\ snap' = Learned
    /\ UNCHANGED << cfg, err, t, params, grad, optimizer, pred, loss, report,
                    progress, grad_enabled, saved, n_records, calls, n_updates,
                    ad_vars, eng_vars >>

\* pred = model(X)
TrainForwardSkip ==
    /\ pc = "train_forward"
    /\ IF ShapeOk(TrainBatch)
       THEN /\ pred' = MakeNode("AddmmBackward0", Logits(params), grad_enabled, {TRUE})
            /\ n_records' = n_records + Records(pred')
            /\ calls' = << IF pred'.requires_grad THEN "forward" ELSE "forward_untracked" >>
            /\ pc' = "train_loss"
            /\ batch' = batch
       ELSE /\ pc' = "train_head"
            /\ batch' = batch + 1
            /\ UNCHANGED << pred, n_records, calls >>
    /\ UNCHANGED << cfg, err, t, params, grad, optimizer, loss, test_loss,
                    correct, report, progress, grad_enabled, saved,
                    phase_log, snap, n_updates, consumed,
                    ad_vars, eng_vars >>

TrainForward ==
    /\ pc = "train_forward"
    /\ IF ShapeOk(TrainBatch)
       THEN /\ pred' = MakeNode("AddmmBackward0", Logits(params), grad_enabled, {TRUE})
            /\ n_records' = n_records + Records(pred')
            /\ calls' = << IF pred'.requires_grad THEN "forward" ELSE "forward_untracked" >>
            /\ pc' = "train_loss"
            /\ err' = err
       ELSE /\ Raise("RuntimeError")
            /\ UNCHANGED << pred, n_records, calls >>
    /\ UNCHANGED << cfg, t, batch, params, grad, optimizer, loss, test_loss,
                    correct, report, progress, grad_enabled, saved,
                    phase_log, snap, n_updates, consumed,
                    ad_vars, eng_vars >>

\* loss = loss_fn(pred, y)
TrainLoss ==
    /\ pc = "train_loss"
    /\ loss' = MakeNode("NllLossBackward0", BatchLoss(pred.val, TrainBatch),
                        grad_enabled, {pred.requires_grad})
    /\ n_records' = n_records + Records(loss')
    /\ calls' = Append(calls, "loss")
    /\ pc' = "train_backward"
    /\ UNCHANGED << cfg, err, t, batch, params, grad, optimizer, pred, test_loss,
                    correct, report, progress, grad_enabled, saved,
                    phase_log, snap, n_updates, consumed,
                    ad_vars, eng_vars >>

\* loss.backward()
TrainBackward ==
    /\ pc = "train_backward"
    /\ IF BackwardOk(loss)
       THEN /\ grad' = [c \in Classes |->
                          AccumulateGrad(grad[c], BatchGrad(pred.val, TrainBatch)[c])]
            /\ loss' = [loss EXCEPT !.freed = TRUE]
            /\ calls' = Append(calls, "backward")
            /\ pc' = "train_step"
            /\ err' = err
       ELSE /\ Raise("RuntimeError")
            /\ UNCHANGED << grad, loss, calls >>
    /\ UNCHANGED << cfg, t, batch, params, optimizer, pred, test_loss,
                    correct, report, progress, grad_enabled, saved, n_records,
                    phase_log, snap, n_updates, consumed,
                    ad_vars, eng_vars >>

\* optimizer.step()
TrainStepNoZero ==
    /\ pc = "train_step"
    /\ params' = SGDStep(params, grad, optimizer[1].lr)
    /\ n_updates' = n_updates + 1
    /\ calls' = Append(calls, "step")
    /\ pc' = "train_report"
    /\ UNCHANGED << cfg, err, t, batch, grad, optimizer, pred, loss, test_loss,
                    correct, report, progress, grad_enabled, saved, n_records,
                    phase_log, snap, consumed,
                    ad_vars, eng_vars >>

TrainStep ==
    /\ pc = "train_step"
    /\ params' = SGDStep(params, grad, optimizer[1].lr)
    /\ n_updates' = n_updates + 1
    /\ calls' = Append(calls, "step")
    /\ pc' = "train_zero_grad"
    /\ UNCHANGED << cfg, err, t, batch, grad, optimizer, pred, loss, test_loss,
                    correct, report, progress, grad_enabled, saved, n_records,
                    phase_log, snap, consumed,
                    ad_vars, eng_vars >>

\* optimizer.zero_grad()
TrainZeroGrad ==
    /\ pc = "train_zero_grad"
    /\ grad' = ZeroGrad(grad)
    /\ calls' = Append(calls, "zero_grad")
    /\ pc' = "train_report"
    /\ UNCHANGED << cfg, err, t, batch, params, optimizer, pred, loss, test_loss,
                    correct, report, progress, grad_enabled, saved, n_records,
                    phase_log, snap, n_updates, consumed,
                    ad_vars, eng_vars >>

\* if batch % 100 == 0: loss, current = loss.item(), batch * batch_size + len(X)
\* (the name loss is rebound to the number loss.item() returns, which is not
\* attached to any graph) and the line is printed; then the loop moves to the
\* next batch.
TrainReport ==
    /\ pc = "train_report"
    /\ IF batch % LogInterval = 0
       THEN /\ loss' = PlainValue(loss.val)
            /\ progress' = Some([batch |-> batch, loss |-> loss'.val,
                                  current |-> batch * cfg.batch_size + Len(TrainBatch),
                                  size |-> Len(cfg.train)])
       ELSE UNCHANGED << loss, progress >>
    /\ batch' = batch + 1
    /\ pc' = "train_head"
    /\ UNCHANGED << cfg, err, t, params, grad, optimizer, pred, test_loss,
                    correct, report, grad_enabled, saved, n_records,
                    calls, phase_log, snap, n_updates, consumed,
                    ad_vars, eng_vars >>

\* with torch.no_grad():
TestNoGradEnter ==
    /\ pc = "test_enter"
    /\ grad_enabled' = NoGradEnter(grad_enabled, saved).mode
    /\ saved' = NoGradEnter(grad_enabled, saved).stack
    /\ pc' = "test_head"
    /\ UNCHANGED << cfg, err, t, batch, params, grad, optimizer, pred, loss,
                    test_loss, correct, report, progress, n_records,
                    calls, phase_log, snap, n_updates, consumed,
                    ad_vars, eng_vars >>

\* for X, y in dataloader:
TestHead ==
    /\ pc = "test_head"
    /\ pc' = IF batch < NumBatches(cfg.test, cfg.loader_batch)
             THEN "test_forward" ELSE "test_exit"
    /\ UNCHANGED << cfg, err, t, batch, params, grad, optimizer, pred, loss,
                    test_loss, correct, report, progress, grad_enabled, saved,
                    n_records, calls, phase_log, snap, n_updates, consumed,
                    ad_vars, eng_vars >>

\* pred = model(X)
TestForward ==
    /\ pc = "test_forward"
    /\ IF ShapeOk(TestBatch)
       THEN /\ pred' = MakeNode("AddmmBackward0", Logits(params), grad_enabled, {TRUE})
            /\ n_records' = n_records + Records(pred')
            /\ pc' = "test_loss"
            /\ err' = err
       ELSE /\ pc' = "test_unwind"
            /\ err' = "RuntimeError"
            /\ UNCHANGED << pred, n_records >>
    /\ UNCHANGED << cfg, t, batch, params, grad, optimizer, loss, test_loss,
                    correct, report, progress, grad_enabled, saved,
                    calls, phase_log, snap, n_updates, consumed,
                    ad_vars, eng_vars >>

\* test_loss += loss_fn(pred, y).item()
TestLoss ==
    /\ pc = "test_loss"
    /\ LET l == MakeNode("NllLossBackward0", BatchLoss(pred.val, TestBatch),
                         grad_enabled, {pred.requires_grad})
       IN  /\ test_loss' = test_loss + l.val
           /\ n_records' = n_records + Records(l)
    /\ pc' = "test_correct"
    /\ UNCHANGED << cfg, err, t, batch, params, grad, optimizer, pred, loss,
                    correct, report, progress, grad_enabled, saved,
                    calls, phase_log, snap, n_updates, consumed,
                    ad_vars, eng_vars >>

\* correct += (pred.argmax(1) == y).type(torch.float).sum().item()
TestCorrect ==
    /\ pc = "test_correct"
    /\ correct' = correct + CorrectIn(pred.val, TestBatch)
    /\ batch' = batch + 1
    /\ pc' = "test_head"
    /\ UNCHANGED << cfg, err, t, params, grad, optimizer, pred, loss,
                    test_loss, report, progress, grad_enabled, saved, n_records,
                    calls, phase_log, snap, n_updates, consumed,
                    ad_vars, eng_vars >>

\* The with block is left: after the loop, or by the exception of a batch.
TestNoGradExit ==
    /\ pc \in {"test_exit", "test_unwind"}
    /\ grad_enabled' = NoGradExit(grad_enabled, saved).mode
    /\ saved' = NoGradExit(grad_enabled, saved).stack
    /\ pc' = IF pc = "test_exit" THEN "test_report" ELSE "raised"
    /\ UNCHANGED << cfg, err, t, batch, params, grad, optimizer, pred, loss,
                    test_loss, correct, report, progress, n_records,
                    calls, phase_log, snap, n_updates, consumed,
                    ad_vars, eng_vars >>

\* test_loss /= num_batches; correct /= size; print(...): a quotient is kept
\* as << numerator, denominator >>.  A division by zero (no batch, no example:
\* an empty held-out set) raises before anything is printed.  Otherwise
\* test_loop returns and the epoch ends.
TestReport ==
    /\ pc = "test_report"
    /\ IF NumBatches(cfg.test, cfg.loader_batch) = 0 \/ Len(cfg.test) = 0
       THEN /\ Raise("ZeroDivisionError")
            /\ UNCHANGED << report, phase_log, t >>
       ELSE /\ report' = Some([loss |-> << test_loss,
                                           NumBatches(cfg.test, cfg.loader_batch) >>,
                                  acc |-> << correct, Len(cfg.test) >>])
            /\ phase_log' = Append(phase_log, "test_end")
            /\ t' = t + 1
            /\ pc' = "epoch_head"
            /\ err' = err
    /\ UNCHANGED << cfg, batch, params, grad, optimizer, pred, loss,
                    test_loss, correct, progress, grad_enabled, saved, n_records,
                    calls, snap, n_updates, consumed,
                    ad_vars, eng_vars >>

Next ==
    \/ MakeDataLoaders
    \/ MakeOptimizer
    \/ EpochHead
    \/ TrainHead
    \/ TrainForward
    \/ TrainLoss
    \/ TrainBackward
    \/ TrainStep
    \/ TrainZeroGrad
    \/ TrainReport
    \/ TestNoGradEnter
    \/ TestHead
    \/ TestForward
    \/ TestLoss
    \/ TestCorrect
    \/ TestNoGradExit
    \/ TestReport

Spec == Init /\ [][Next]_vars

\* The notebook runs its statements one after the other: a step that can be
\* taken is taken.
FairSpec == Init /\ [][Next]_vars /\ WF_vars(Next)

\* The same run over a training set long enough for train_loop to reach a
\* batch index that is a multiple of the progress interval after batch 0.
LongSizes == {LogInterval, LogInterval + 1, MaxLong}
LongBatchSizes == {1, 2}
LongData(n) == [i \in 1..n |-> [y |-> i % 2, ok |-> TRUE]]

InitLong ==
    /\ cfg \in [epochs : {1}, learning_rate : {1},
                loader_batch : LongBatchSizes, batch_size : LongBatchSizes,
                train : {LongData(n) : n \in LongSizes},
                test : {LongData(1)}]
    /\ pc = "dataloader"
    /\ err = "None"
    /\ t = 0
    /\ batch = 0
    /\ params = [c \in Classes |-> 0]
    /\ grad = [c \in Classes |-> None]
    /\ optimizer = None
    /\ pred = NoPred
    /\ loss = NoNode
    /\ test_loss = 0
    /\ correct = 0
    /\ report = None
    /\ progress = None
    /\ grad_enabled = TRUE
    /\ saved = << >>
    /\ n_records = 0
    /\ calls = << >>
    /\ phase_log = << >>
    /\ snap = Learned
    /\ n_updates = 0
    /\ consumed = << >>
    /\ ADIdle
    /\ EngIdle

SpecLong == InitLong /\ [][Next]_vars

----------------------------------------------------------------------------
\* automatic_differentiation.ipynb: the statements of the walk-through, issued
\* in any order by a session that has run the first cell.

LeafNames == {"w", "b"}
LeafValues == {0, 1}

\* z = torch.matmul(x, w)+b with x = torch.ones(5): the sum of the leaves.
ZValue == leaves["w"].val + leaves["b"].val
ZOperands == {leaves["w"].requires_grad, leaves["b"].requires_grad}

\* The loss of z against y = torch.zeros(3), and d loss / d z (an integer
\* stand-in for binary_cross_entropy_with_logits: z squared).
LossValue(z) == z * z
LossDeriv(z) == 2 * z

\* d loss / d leaf: d z / d w = x = 1 and d z / d b = 1.
LeafGrad == LossDeriv(ZValue)

ZNode(mode) == MakeNode("AddBackward0", ZValue, mode, ZOperands)
LossNode(z, mode) ==
    MakeNode("BinaryCrossEntropyWithLogitsBackward0", LossValue(z.val), mode,
             {z.requires_grad})

DrvIdle ==
    /\ cfg = [epochs |-> 0, learning_rate |-> 0, loader_batch |-> 0, batch_size |-> 0,
              train |-> << >>, test |-> << >>]
    /\ pc = "session"
    /\ err = "None"
    /\ t = 0
    /\ batch = 0
    /\ params = [c \in Classes |-> 0]
    /\ grad = [c \in Classes |-> None]
    /\ optimizer = None
    /\ pred = NoPred
    /\ loss = NoNode
    /\ test_loss = 0
    /\ correct = 0
    /\ report = None
    /\ progress = None
    /\ n_records = 0
    /\ calls = << >>
    /\ phase_log = << >>
    /\ snap = Learned
    /\ n_updates = 0
    /\ consumed = << >>

Grads == [n \in LeafNames |-> leaves[n].grad]

\* w = torch.randn(5, 3, requires_grad=..), b = torch.randn(3, requires_grad=..),
\* z = torch.matmul(x, w)+b, loss = binary_cross_entropy_with_logits(z, y)
InitAD ==
    /\ DrvIdle
    /\ grad_enabled = TRUE
    /\ saved = << >>
    /\ leaves \in [LeafNames -> [requires_grad : BOOLEAN, val : LeafValues, grad : {None}]]
    /\ zn = ZNode(grad_enabled)
    /\ lossn = LossNode(zn, grad_enabled)
    /\ raising = FALSE
    /\ n_back = 0
    /\ hist = [NoHist EXCEPT !.made = [n \in {"z", "loss"} |->
                    [mode |-> grad_enabled, depth |-> Len(saved),
                     operands |-> IF n = "z" THEN ZOperands ELSE {zn.requires_grad}]]]
    /\ EngIdle

\* The first cell's last two statements again: a new graph for z and loss.
ADForward ==
    /\ pc = "session"
    /\ ~raising
    /\ zn' = ZNode(grad_enabled)
    /\ lossn' = LossNode(zn', grad_enabled)
    /\ hist' = [hist EXCEPT !.made = [n \in {"z", "loss"} |->
                    [mode |-> grad_enabled, depth |-> Len(saved),
                     operands |-> IF n = "z" THEN ZOperands ELSE {zn'.requires_grad}]],
                             !.bw.nth = 0]
    /\ UNCHANGED << drv_vars, eng_vars, n_records, grad_enabled, saved, leaves, raising, n_back >>

\* z = torch.matmul(x, w)+b alone: the name z is bound to a new node.
ADEvalZ ==
    /\ pc = "session"
    /\ ~raising
    /\ zn' = ZNode(grad_enabled)
    /\ hist' = [hist EXCEPT !.made["z"] = [mode |-> grad_enabled, depth |-> Len(saved),
                                             operands |-> ZOperands],
                             !.bw.nth = 0]
    /\ UNCHANGED << drv_vars, eng_vars, n_records, grad_enabled, saved, leaves, lossn, raising,
                    n_back >>

\* loss.backward(): fails on a loss that is not attached to a graph and on a
\* graph whose buffers an earlier backward pass freed.
ADBackward ==
    /\ pc = "session"
    /\ ~raising
    /\ n_back < MaxBackward
    /\ hist.bw.nth < MaxBackward
    /\ LET ok == BackwardOk(lossn)
           base == IF hist.bw.nth = 0 THEN Grads ELSE hist.bw.base
       IN  /\ hist' = [hist EXCEPT !.bw = [nth |-> hist.bw.nth + 1, ok |-> ok,
                                           error |-> IF ok THEN "None" ELSE "RuntimeError",
                                           base |-> base, before |-> Grads]]
           /\ IF ok
              THEN /\ leaves' = [n \in LeafNames |->
                          IF leaves[n].requires_grad
                          THEN [leaves[n] EXCEPT !.grad = AccumulateGrad(leaves[n].grad, LeafGrad)]
                          ELSE leaves[n]]
                   /\ lossn' = [lossn EXCEPT !.freed = TRUE]
                   /\ n_back' = n_back + 1
                   /\ UNCHANGED raising
              ELSE /\ raising' = (saved # << >>)
                   /\ UNCHANGED << leaves, lossn, n_back >>
    /\ UNCHANGED << drv_vars, eng_vars, n_records, grad_enabled, saved, zn >>

\* with torch.no_grad():
ADNoGradEnter ==
    /\ pc = "session"
    /\ ~raising
    /\ Len(saved) < MaxDepth
    /\ grad_enabled' = NoGradEnter(grad_enabled, saved).mode
    /\ saved' = NoGradEnter(grad_enabled, saved).stack
    /\ hist' = [hist EXCEPT !.bw.nth = 0, !.exit = "none"]
    /\ UNCHANGED << drv_vars, eng_vars, n_records, leaves, zn, lossn, raising, n_back >>

\* The end of a with block, reached by its last statement or by an exception,
\* which goes on to the enclosing block.
ADNoGradExit ==
    /\ pc = "session"
    /\ saved # << >>
    /\ grad_enabled' = NoGradExit(grad_enabled, saved).mode
    /\ saved' = NoGradExit(grad_enabled, saved).stack
    /\ raising' = (raising /\ saved' # << >>)
    /\ hist' = [hist EXCEPT !.bw.nth = IF raising THEN hist.bw.nth ELSE 0,
                             !.exit = IF raising THEN "error" ELSE "normal"]
    /\ UNCHANGED << drv_vars, eng_vars, n_records, leaves, zn, lossn, n_back >>

NextAD ==
    \/ ADForward
    \/ ADEvalZ
    \/ ADBackward
    \/ ADNoGradEnter
    \/ ADNoGradExit

SpecAD == InitAD /\ [][NextAD]_vars

\* Either notebook is run.
SpecAll == (Init \/ InitAD) /\ [][Next \/ NextAD]_vars

----------------------------------------------------------------------------
\* One backward pass of the autograd engine over a recorded graph.  The
\* engine is part of the library the notebooks call; this is the algorithm
\* the specification gives for it (section 4.1, backward pass).  A graph is
\* the set of recorded edges from a node to its operands; operands are made
\* before the nodes that use them, so they carry smaller numbers, and the
\* output is the last node.  Every node of a recorded graph is tracked.  The
\* walk-through's graph (w, b, the product of x and w, z, loss) is the graph
\* {<<3,1>>, <<4,3>>, <<4,2>>, <<5,4>>}.

Nodes == 1..MaxNodes
Output == MaxNodes
Edges == { e \in Nodes \X Nodes : e[2] < e[1] }

Operands(n) == { m \in Nodes : << n, m >> \in graph }
Consumers(n) == { k \in Nodes : << k, n >> \in graph }

\* The gradient-propagation rule of an edge: the local derivative of the
\* node with respect to the operand (a fixed integer per edge).
EdgeRule(n, m) == n - m

\* The part of the graph reachable from the output.
RECURSIVE Reach(_)
Reach(n) == n = Output \/ \E k \in Consumers(n) : Reach(k)

Visited == { order[i] : i \in 1..Len(order) }

\* A node may be propagated once every consumer of it that is reachable from
\* the output has been.
ReadyAfterAnyConsumer(n) ==
    /\ Reach(n)
    /\ n \notin Visited
    /\ n = Output \/ \E k \in Consumers(n) : k \in Visited
Ready(n) ==
    /\ Reach(n)
    /\ n \notin Visited
    /\ \A k \in Consumers(n) : Reach(k) => k \in Visited

InitBW ==
    /\ DrvIdle
    /\ grad_enabled = TRUE
    /\ saved = << >>
    /\ ADIdle
    /\ graph \in SUBSET Edges
    /\ node_grad = << >>
    /\ order = << >>

\* The output's gradient is seeded with 1, every other slot of the pass is 0.
BackwardSeed ==
    /\ node_grad = << >>
    /\ node_grad' = [n \in Nodes |-> IF n = Output THEN 1 ELSE 0]
    /\ UNCHANGED << drv_vars, ad_vars, n_records, grad_enabled, saved, graph, order >>

\* A ready node is propagated: its accumulated gradient, through the rule of
\* each operand edge, is added to the operand's slot.
BackwardVisit ==
    /\ node_grad # << >>
    /\ \E n \in Nodes :
           /\ Ready(n)
           /\ node_grad' = [m \in Nodes |->
                                IF m \in Operands(n)
                                THEN node_grad[m] + EdgeRule(n, m) * node_grad[n]
                                ELSE node_grad[m]]
           /\ order' = Append(order, n)
    /\ UNCHANGED << drv_vars, ad_vars, n_records, grad_enabled, saved, graph >>

NextBW ==
    \/ BackwardSeed
    \/ BackwardVisit

SpecBW == InitBW /\ [][NextBW]_vars

----------------------------------------------------------------------------
\* Properties of the training run (Spec, FairSpec).

Accepted == cfg.loader_batch > 0 /\ cfg.learning_rate >= 0
NoFailingBatch == ShapeOk(cfg.train) /\ ShapeOk(cfg.test)

PhasePattern == << "train_begin", "train_end", "test_begin", "test_end" >>

\* The phases begun and ended so far are whole train and evaluation phases
\* in turn, starting with a train phase.
PhasesAlternate ==
    \A i \in 1..Len(phase_log) : phase_log[i] = PhasePattern[((i - 1) % 4) + 1]

\* C1: for an epoch count E >= 1 the driver runs exactly E cycles, each one
\* whole train phase followed by one whole evaluation phase (never two train
\* or two evaluation phases in a row); it prints "Done!" only after the
\* evaluation phase of cycle E; and with an accepted configuration and no
\* failing batch it does get there.
C1_EpochCycles ==
    /\ [](cfg.epochs >= 1 =>
            /\ PhasesAlternate
            /\ Len(phase_log) <= 4 * cfg.epochs
            /\ (pc = "Done" => Len(phase_log) = 4 * cfg.epochs /\ t = cfg.epochs))
    /\ ((pc = "dataloader" /\ cfg.epochs >= 1 /\ Accepted /\ NoFailingBatch)
            ~> (pc = "Done"))


FullBatch == << "forward", "loss", "backward", "step", "zero_grad" >>

IsPrefix(a, b) == Len(a) <= Len(b) /\ a = SubSeq(b, 1, Len(a))

\* C2: in the train phase every batch goes through forward evaluation with
\* tracking enabled, loss, backward, optimizer update and gradient reset, in
\* this order, each once; the forward evaluation of the next batch starts
\* only after the reset of the batch before it.
C2_BatchSteps ==
    /\ IsPrefix(calls, FullBatch)
    /\ pc = "train_loss" => calls = SubSeq(FullBatch, 1, 1) /\ pred.requires_grad
    /\ pc = "train_backward" => calls = SubSeq(FullBatch, 1, 2) /\ loss.requires_grad
    /\ pc = "train_step" => calls = SubSeq(FullBatch, 1, 3)
    /\ pc = "train_zero_grad" => calls = SubSeq(FullBatch, 1, 4)
    /\ pc = "train_report" => calls = FullBatch
    /\ pc \in {"train_head", "train_forward"} =>
           calls = IF (t = 0 /\ batch = 0) \/ cfg.train = << >>
                   THEN << >> ELSE FullBatch

C2_Witness ==
    /\ pc = "train_forward"
    /\ batch = 1
    /\ t = 1
    /\ calls = FullBatch

AllNone(g) == \A c \in Classes : g[c] = None

\* C3: at every optimizer update of train_loop each parameter's gradient
\* slot holds the gradient of the current batch's loss and nothing of any
\* earlier batch, epoch or evaluation phase.
C3_NoDoubleCounting ==
    pc = "train_step" =>
        \A c \in Classes : grad[c] = Some(BatchGrad(Logits(params), TrainBatch)[c])

C3_Witness ==
    /\ pc = "train_step"
    /\ t = 1
    /\ batch = 1
    /\ params # [c \in Classes |-> 0]
    /\ \E c \in Classes : grad[c] # Some(0)

\* C4: right after the optimizer's zero step every gradient slot equals the
\* zero value, whatever was accumulated into it before; hence the slots are
\* zero at the start of every batch iteration after the first and at every
\* boundary between a train phase and an evaluation phase.
C4_SlotsAreZeroValue ==
    /\ pc = "train_report" => \A c \in Classes : grad[c] = Some(0)
    /\ (pc \in {"train_head", "train_forward"} /\ batch >= 1) =>
           \A c \in Classes : grad[c] = Some(0)
    /\ (pc \in {"test_enter", "epoch_head"} /\ n_updates >= 1) =>
           \A c \in Classes : grad[c] = Some(0)

AfterTestEntry ==
    phase_log # << >> /\ phase_log[Len(phase_log)] \in {"test_begin", "test_end"}

\* C8: from the entry of test_loop to its exit (and until the next train
\* phase) the parameter values, the gradient slots and the optimizer are
\* what they were at the entry, and no operation record is created.
C8_EvaluationFrame ==
    AfterTestEntry => Learned = snap

C8_Witness ==
    /\ pc = "test_report"
    /\ t = 1
    /\ batch = 2
    /\ params # [c \in Classes |-> 0]
    /\ n_records > 0

RECURSIVE TotalLoss(_, _, _, _)
TotalLoss(logits, data, B, n) ==
    IF n = 0 THEN 0
    ELSE TotalLoss(logits, data, B, n - 1) + BatchLoss(logits, BatchAt(data, B, n - 1))

\* C9: the evaluation phase reports the sum of the per-batch losses over the
\* number of batches, and the number of held-out examples whose argmax is
\* their label over the number of held-out examples; the accuracy lies in
\* [0, 1]; the report of an epoch owes nothing to earlier evaluation phases.
C9_Report ==
    (pc = "epoch_head" /\ t >= 1) =>
        /\ report = Some(
             [loss |-> << TotalLoss(Logits(params), cfg.test, cfg.loader_batch,
                                    NumBatches(cfg.test, cfg.loader_batch)),
                          NumBatches(cfg.test, cfg.loader_batch) >>,
              acc |-> << Cardinality({i \in 1..Len(cfg.test) :
                                         ArgMax(Logits(params)) = cfg.test[i].y}),
                         Len(cfg.test) >>])
        /\ report[1].acc[1] >= 0
        /\ report[1].acc[1] <= report[1].acc[2]
        /\ report[1].acc[2] > 0
        /\ report[1].loss[2] > 0
        /\ cfg.test # << >>

C9_Witness ==
    /\ pc = "epoch_head"
    /\ t = 2
    /\ report # None
    /\ report[1].loss[1] > 0
    /\ report[1].acc[1] > 0
    /\ report[1].loss[2] = 2

NonPositiveSetting ==
    \/ cfg.learning_rate <= 0
    \/ cfg.loader_batch <= 0
    \/ cfg.batch_size <= 0
    \/ cfg.epochs <= 0

\* C10: a run set up with a non-positive learning rate, batch size or epoch
\* count is rejected before any computation: no forward pass, backward pass,
\* update or evaluation is executed and "Done!" is not reached.
C10_SetupRejected ==
    (pc # "session" /\ NonPositiveSetting) =>
        /\ pc # "Done"
        /\ phase_log = << >>
        /\ calls = << >>
        /\ n_records = 0
        /\ report = None

----------------------------------------------------------------------------
\* Properties of the autograd session (SpecAD) and of both notebooks (SpecAll).

Tracked(n) == leaves[n].requires_grad

\* C5 as stated: two backward calls in succession on the same output, from
\* empty slots and with no zeroing in between, leave every tracked leaf with
\* double the gradient of one call.
C5_TwiceOnSameOutputDoubles ==
    (/\ hist.bw.nth = 2
     /\ lossn.requires_grad
     /\ \A n \in LeafNames : Tracked(n) => hist.bw.base[n] = None)
    => \A n \in LeafNames : Tracked(n) => leaves[n].grad = Some(2 * LeafGrad)

\* C5, amended: the backward pass adds into the gradient slots and never
\* overwrites them: after k backward passes with no zeroing, each over a
\* newly built graph of the same expression, every tracked leaf holds k
\* times the gradient one pass leaves in an empty slot (double for k = 2);
\* a backward call that fails, as a second call on the same output does once
\* the first has freed its graph, leaves every slot as it was.
C5_AccumulationLaw ==
    /\ \A n \in LeafNames : Tracked(n) =>
           leaves[n].grad = IF n_back = 0 THEN None ELSE Some(n_back * LeafGrad)
    /\ (hist.bw.nth >= 1 /\ ~hist.bw.ok) => Grads = hist.bw.before

C5_Witness ==
    /\ n_back = 2
    /\ LeafGrad # 0
    /\ Tracked("w")
    /\ leaves["w"].grad = Some(2 * LeafGrad)
    /\ hist.bw.nth = 2
    /\ ~hist.bw.ok

NodeOf(n) == IF n = "z" THEN zn ELSE lossn

\* C6: the result of an operation is tracked and carries an operation record
\* exactly when tracking is enabled and one of its operands is tracked; a
\* node made inside a no-tracking region is untracked and has no operation
\* record even when its operands are tracked.
C6_TrackingLaw ==
    \A n \in {"z", "loss"} :
        /\ NodeOf(n).requires_grad = (hist.made[n].mode /\ TRUE \in hist.made[n].operands)
        /\ (NodeOf(n).grad_fn # "None") = NodeOf(n).requires_grad
        /\ hist.made[n].depth > 0 =>
               ~NodeOf(n).requires_grad /\ NodeOf(n).grad_fn = "None"

C6_Witness ==
    /\ hist.made["z"].depth > 0
    /\ TRUE \in hist.made["z"].operands
    /\ ~zn.requires_grad
    /\ zn.grad_fn = "None"
    /\ hist.made["loss"].depth = 0
    /\ lossn.requires_grad
    /\ lossn.grad_fn # "None"

\* C7: tracking is disabled throughout a no-tracking region and is, after
\* the region is left, what it was before the region was entered: enabled
\* after the outermost region, still disabled after a nested one, whether
\* the region is left by its last statement or by an exception.
C7_ScopedRestore ==
    /\ saved # << >> => ~grad_enabled
    /\ saved = << >> => grad_enabled
    /\ \A i \in 1..Len(saved) : saved[i] = (i = 1)

C7_Witness ==
    /\ hist.exit = "error"
    /\ raising
    /\ Len(saved) = 1
    /\ ~grad_enabled

----------------------------------------------------------------------------
\* A batch that fails (Spec).

TrainPcs == {"train_head", "train_forward", "train_loss", "train_backward",
             "train_step", "train_zero_grad", "train_report"}
TestPcs == {"test_enter", "test_head", "test_forward", "test_loss", "test_correct",
            "test_exit", "test_unwind", "test_report"}

LastPhaseEvent == IF phase_log = << >> THEN "none" ELSE phase_log[Len(phase_log)]

\* The parameters after the first k batches of an epoch that starts from p,
\* and after e whole epochs: every batch's update applied once, in order.
RECURSIVE AfterBatches(_, _)
AfterBatches(p, k) ==
    IF k = 0
    THEN p
    ELSE LET q == AfterBatches(p, k - 1)
             X == BatchAt(cfg.train, cfg.loader_batch, k - 1)
         IN  [c \in Classes |-> q[c] - cfg.learning_rate * BatchGrad(q, X)[c]]

RECURSIVE AfterEpochs(_)
AfterEpochs(e) ==
    IF e = 0
    THEN [c \in Classes |-> 0]
    ELSE AfterBatches(AfterEpochs(e - 1), NumBatches(cfg.train, cfg.loader_batch))

BatchesOkBefore(data, k) ==
    \A i \in 0..(k - 1) : ShapeOk(BatchAt(data, cfg.loader_batch, i))

\* C11: a failing batch aborts its phase.  The error reaches the caller (the
\* run ends raised with the batch's error); no batch after a failing one is
\* processed and a failing batch is neither retried nor skipped (a phase is
\* only ever past batches that did not fail, and the run stops at the index
\* of the failing one); the phase reports no summary (no end event and no
\* "Test Error" line for it); and the parameters are those the earlier
\* batches' updates left.
C11_FailingBatchAborts ==
    /\ pc \in TrainPcs => BatchesOkBefore(cfg.train, batch)
    /\ pc \in TrainPcs \ {"train_head", "train_forward"} => ShapeOk(TrainBatch)
    /\ pc \in TestPcs =>
           ShapeOk(cfg.train) /\ BatchesOkBefore(cfg.test, batch)
    /\ pc \in {"test_loss", "test_correct"} => ShapeOk(TestBatch)
    /\ (pc = "raised" /\ LastPhaseEvent = "train_begin") =>
           /\ err = "RuntimeError"
           /\ batch < NumBatches(cfg.train, cfg.loader_batch)
           /\ ~ShapeOk(TrainBatch)
           /\ BatchesOkBefore(cfg.train, batch)
           /\ Len(phase_log) = 4 * t + 1
           /\ t = 0 => report = None
           /\ n_updates = t * NumBatches(cfg.train, cfg.loader_batch) + batch
           /\ params = AfterBatches(AfterEpochs(t), batch)
    /\ (pc \in {"raised", "test_unwind"} /\ LastPhaseEvent = "test_begin") =>
           /\ err = IF cfg.test = << >> THEN "ZeroDivisionError" ELSE "RuntimeError"
    /\ (pc \in {"raised", "test_unwind"} /\ LastPhaseEvent = "test_begin"
            /\ err = "RuntimeError") =>
           /\ batch < NumBatches(cfg.test, cfg.loader_batch)
           /\ ~ShapeOk(TestBatch)
           /\ BatchesOkBefore(cfg.test, batch)
           /\ Len(phase_log) = 4 * t + 3
           /\ t = 0 => report = None
           /\ n_updates = (t + 1) * NumBatches(cfg.train, cfg.loader_batch)
           /\ params = AfterEpochs(t + 1)
    /\ report # None => NoFailingBatch
    /\ (pc = "Done" /\ cfg.epochs >= 1) => NoFailingBatch

C11_Witness ==
    /\ pc = "raised"
    /\ LastPhaseEvent = "train_begin"
    /\ batch = 1
    /\ ~ShapeOk(TrainBatch)
    /\ n_updates = 1
    /\ params # [c \in Classes |-> 0]

----------------------------------------------------------------------------
\* Backward on an output that is not tracked (SpecAD).

\* C13: a backward pass requested on an output node that has tracking
\* disabled (one produced inside a no-tracking region, or from operands none
\* of which is tracked) fails with an error and changes no gradient slot; it
\* does not return silently.
C13_UntrackedBackwardFails ==
    (hist.bw.nth >= 1 /\ ~lossn.requires_grad) =>
        /\ ~hist.bw.ok
        /\ hist.bw.error = "RuntimeError"
        /\ Grads = hist.bw.before
        /\ ~lossn.freed
        /\ saved # << >> => raising

C13_Witness ==
    /\ hist.bw.nth = 1
    /\ hist.made["loss"].depth > 0
    /\ TRUE \in hist.made["z"].operands
    /\ ~lossn.requires_grad
    /\ hist.bw.error = "RuntimeError"
    /\ n_back = 1
    /\ \E n \in LeafNames : leaves[n].grad # None
    /\ Grads = hist.bw.before

----------------------------------------------------------------------------
\* The order of a backward pass (SpecBW).

\* d output / d node: the sum, over every path from the output to the node,
\* of the product of the edge rules along the path.
RECURSIVE PathSum(_)
RECURSIVE PathSumFrom(_, _)
PathSum(n) == IF n = Output THEN 1 ELSE PathSumFrom(n, n + 1)
PathSumFrom(n, k) ==
    IF k > MaxNodes
    THEN 0
    ELSE (IF << k, n >> \in graph THEN EdgeRule(k, n) * PathSum(k) ELSE 0)
         + PathSumFrom(n, k + 1)

PositionOf(n) == CHOOSE i \in 1..Len(order) : order[i] = n

PassFinished == node_grad # << >> /\ \A n \in Nodes : Reach(n) => n \in Visited

\* C14: the backward pass visits nodes in reverse topological order from the
\* output.  The first node propagated is the output; a node is propagated
\* only after every consumer of it reachable from the output has been, so
\* its gradient is complete (the sum over all paths) when it is propagated;
\* every node is propagated at most once, and exactly once in a finished
\* pass, where every node reachable from the output holds the sum of the
\* contributions along all paths.
C14_ReverseTopological ==
    /\ \A i, j \in 1..Len(order) : order[i] = order[j] => i = j
    /\ order # << >> => order[1] = Output
    /\ \A i \in 1..Len(order) :
           /\ Reach(order[i])
           /\ \A k \in Consumers(order[i]) :
                  Reach(k) => k \in Visited /\ PositionOf(k) < i
           /\ node_grad[order[i]] = PathSum(order[i])
    /\ PassFinished =>
           \A n \in Nodes : Reach(n) => node_grad[n] = PathSum(n)

\* A finished pass over a diamond: a node with an operand feeds two
\* consumers, neither of which feeds the other, and both feed the output.
C14_Witness ==
    /\ PassFinished
    /\ Len(order) = MaxNodes
    /\ \E n \in Nodes :
           /\ Operands(n) # {}
           /\ \E k1, k2 \in Consumers(n) :
                  /\ k1 # k2
                  /\ k1 \notin Operands(k2) /\ k2 \notin Operands(k1)
                  /\ {k1, k2} \subseteq Operands(Output)
           /\ node_grad[n] = PathSum(n)
           /\ node_grad[n] >= 2
           /\ node_grad[n] = PathSum(n)
           /\ \A m \in Operands(n) : node_grad[m] = PathSum(m) /\ node_grad[m] >= 2

----------------------------------------------------------------------------
\* Batches and updates of the train phase (Spec).

\* ceil(n / b) for b > 0: the least k with k * b >= n.
CeilDiv(n, b) == CHOOSE k \in 0..n : k * b >= n /\ (k = 0 \/ (k - 1) * b < n)

UpdatesPerEpoch == CeilDiv(Len(cfg.train), cfg.loader_batch)

\* The batches the loader has yielded in the running train phase.
Yielded == IF pc = "train_head" THEN batch ELSE batch + 1

\* C15: in every epoch the train phase consumes the batches of the training
\* source in the source's order, each batch once (what has been consumed is
\* always the first batches of the source, whole, and at the end of the
\* phase it is the source itself, in every epoch), with one parameter update
\* per batch; after E epochs over N examples with batch size B the number of
\* updates is E * ceil(N / B).
C15_BatchesOncePerEpoch ==
    /\ pc \in TrainPcs =>
           /\ IsPrefix(consumed, cfg.train)
           /\ Len(consumed) = Min(Yielded * cfg.loader_batch, Len(cfg.train))
           /\ Yielded <= UpdatesPerEpoch
           /\ n_updates = t * UpdatesPerEpoch
                          + (IF pc \in {"train_zero_grad", "train_report"}
                             THEN batch + 1 ELSE batch)
    /\ pc \in TestPcs =>
           /\ consumed = cfg.train
           /\ n_updates = (t + 1) * UpdatesPerEpoch
    /\ (pc = "epoch_head" /\ t >= 1) =>
           /\ consumed = cfg.train
           /\ n_updates = t * UpdatesPerEpoch
    /\ pc = "Done" =>
           /\ t = IF cfg.epochs >= 0 THEN cfg.epochs ELSE 0
           /\ n_updates = t * UpdatesPerEpoch
           /\ t >= 1 => consumed = cfg.train

C15_Witness ==
    /\ pc = "Done"
    /\ cfg.epochs = MaxEpochs
    /\ Len(cfg.train) = MaxTrain
    /\ cfg.loader_batch = 1
    /\ n_updates = MaxEpochs * MaxTrain
    /\ consumed = cfg.train

----------------------------------------------------------------------------
\* Progress lines of train_loop (SpecLong).

\* The last batch index at or before b that is a multiple of the interval.
LastReported(b) == (b \div LogInterval) * LogInterval

\* C16 as stated: a progress line is printed exactly at the batch indices
\* that are multiples of 100, batch 0 included; printing it changes no
\* parameter, gradient or optimizer state; and its position counter equals
\* the number of training examples consumed so far in the epoch and never
\* exceeds the dataset size, whatever batch size the loader was built with.
C16_ProgressCounter ==
    /\ (pc \in TrainPcs /\ batch = 0) => progress = None
    /\ (pc = "train_report" /\ batch % LogInterval # 0) =>
           progress[1].batch = LastReported(batch)
    /\ (pc = "train_head" /\ batch >= 1) =>
           /\ progress # None
           /\ progress[1].batch = LastReported(batch - 1)
           /\ AllNone(grad)
           /\ optimizer = Some([lr |-> cfg.learning_rate])
           /\ n_updates = batch
           /\ calls = FullBatch
           /\ progress[1].batch = batch - 1 => progress[1].current = Len(consumed)
    /\ progress # None =>
           /\ progress[1].batch % LogInterval = 0
           /\ progress[1].size = Len(cfg.train)
           /\ progress[1].current <= progress[1].size

====
